---- MODULE Spec2Model ----
(***************************************************************************)
(* layer-system (src/lib.rs): a stack of layers owned by a LayerManager.   *)
(* LayerManager::update visits the stack top-down, interprets the Change   *)
(* each visited layer returns, and then calls passive_update on every      *)
(* layer left in the stack, bottom-up.                                     *)
(*                                                                         *)
(* Indices named idx, i, j, p are the 0-based indices of the Rust code;    *)
(* the layer at Rust index k of a Vec v is v[k + 1] here.                  *)
(***************************************************************************)
EXTENDS Integers, Sequences, FiniteSets, TLC

\* ------------------------------------------------------------------ bounds
\* Longest initial list handed to LayerManager::new.
MaxInit == 3
\* Longest add list an arbitrary layer returns.
MaxAdd == 2
\* Number of layer instances ever created (initial ones included).
MaxId == 5

\* ------------------------------------------------------------- data model
\* enum ChangeAction
ChangeAction == {"None", "Pass", "Remove", "Clear"}

\* The events of the test module.
Event == {"Idle", "Input", "Exit"}

\* The implementations of trait Layer: the two of the test module, and
\* "Gen", an arbitrary implementation (any Change for any event).
LayerKind == {"Main", "Top", "Gen"}

\* A layer instance (a Box<dyn Layer>): its identity and its implementation.
NewLayer(id, kind) == [id |-> id, kind |-> kind]

\* struct Change { add, action }
Change(add, action) == [add |-> add, action |-> action]

\* The constructors of Change.
none == Change(<<>>, "None")

pass == Change(<<>>, "Pass")

add(layers) == Change(layers, "None")

remove == Change(<<>>, "Remove")

replace(layers) == Change(layers, "Remove")

close == Change(<<>>, "Clear")

clear(layers) == Change(layers, "Clear")

\* ------------------------------------------------------------------ state
VARIABLES
    stack,    \* LayerManager.0: the Vec of layers, bottom first
    pc,       \* "new" | "checked" | "dispatch" | "passive" | "returned" | "panic"
    event,    \* update's argument `event`
    count,    \* update's local `count`
    i,        \* update's local `i`
    p,        \* position of the iterator of the passive pass
    active,   \* what is_active() returned, when pc = "checked"
    nextId,   \* identity of the next layer instance to be created
    pre,      \* history: the stack when the current update call began
    before,   \* history: the stack when the latest Layer::update was invoked
    calls,    \* history: the layer methods invoked in the current update call
    trace     \* history: the update calls the test made (event, stack length)

vars == <<stack, pc, event, count, i, p, active, nextId, pre, before, calls, trace>>

\* A record of one invocation of a layer method.
Call(op, layer, idx, change) ==
    [op |-> op, id |-> layer.id, idx |-> idx, change |-> change]

NoChange == Change(<<>>, "-")

\* ---------------------------------------------------------------- Vec ops
\* Vec::insert(index, element); panics when index > len.
VecInsert(v, index, element) ==
    SubSeq(v, 1, index) \o <<element>> \o SubSeq(v, index + 1, Len(v))

\* Vec::remove(index); panics when index >= len.
VecRemove(v, index) ==
    SubSeq(v, 1, index) \o SubSeq(v, index + 2, Len(v))

\* Whether v[index] exists.
InBounds(v, index) == index >= 0 /\ index < Len(v)

\* Whether Vec::insert(index, _) is allowed.
CanInsert(v, index) == index >= 0 /\ index <= Len(v)

\* ------------------------------------------------------ trait Layer impls
\* The n layers a Change creates: fresh instances of implementation kind.
FreshLayers(first, n, kind) == [k \in 1..n |-> NewLayer(first + k - 1, kind)]

\* MainLayer::update of the test module.
MainUpdate(e, first) ==
    CASE e = "Input" -> add(<<NewLayer(first, "Top")>>)
      [] e = "Idle" -> none
      [] e = "Exit" -> remove

\* TopLayer::update of the test module.
TopUpdate(e) ==
    CASE e = "Input" -> pass
      [] e = "Idle" -> none
      [] e = "Exit" -> remove

\* What an arbitrary implementation of Layer::update can return: a value
\* built by one of the constructors of Change (the fields of Change are
\* private), its add list at most `room` long.
GenUpdate(first, room) ==
    {none, pass, remove, close}
        \cup {add(FreshLayers(first, n, "Gen")) : n \in 1..room}
        \cup {replace(FreshLayers(first, n, "Gen")) : n \in 1..room}
        \cup {clear(FreshLayers(first, n, "Gen")) : n \in 1..room}

Min(a, b) == IF a < b THEN a ELSE b

\* The Changes layer.update(state, &event) can return.
LayerUpdate(layer, e, first) ==
    CASE layer.kind = "Main" -> {MainUpdate(e, first)}
      [] layer.kind = "Top" -> {TopUpdate(e)}
      [] layer.kind = "Gen" -> GenUpdate(first, Min(MaxAdd, MaxId + 1 - first))

\* What an arbitrary implementation of Layer::update could return if it built
\* the struct itself (code inside the crate can): any action with any add
\* list, at most `room` long.
RawUpdate(first, room) ==
    {Change(FreshLayers(first, n, "Gen"), a) :
        n \in {k \in 0..MaxAdd : k <= room}, a \in ChangeAction}

\* The Changes layer.update(state, &event) can return, struct values built
\* directly included. On Input one instance is kept back for MainLayer's
\* add list.
RawLayerUpdate(layer, e, first) ==
    CASE layer.kind = "Main" -> {MainUpdate(e, first)}
      [] layer.kind = "Top" -> {TopUpdate(e)}
      [] layer.kind = "Gen" ->
            RawUpdate(first, MaxId + 1 - first - (IF e = "Input" THEN 1 ELSE 0))

\* --------------------------------------------------- LayerManager::update
\* Mutant: the visit starts below the top layer (i = count - 1 before the
\* loop's own decrement).
StartIndex_BelowTop(v) == Len(v) - 1

\* let count = self.0.len(); let mut i = count;
StartIndex(v) == Len(v)

\* Mutant: the loop condition lets i = 0 through (i >= 0).
LoopCond_Inclusive(idx) == idx >= 0

\* while i > 0
LoopCond(idx) == idx > 0

\* Mutant: add_index is one too high (i + 2).
AddIndex_OneTooHigh(idx) == idx + 2

\* Mutant: the add list goes to the visited layer's own index.
AddIndex_AtSelf(idx) == idx

\* let add_index = i + 1;
AddIndex(idx) == idx + 1

\* Mutant: every added layer is inserted at add_index (the list ends up
\* reversed).
InsertIndex_Fixed(add_index, k) == add_index

\* The index of self.0.insert(add_index + i, added) for the k-th added layer
\* (k counted from 0: the `i` of enumerate()).
InsertIndex(add_index, k) == add_index + k

\* for (i, added) in add.into_iter().enumerate() { self.0.insert(..) }
\* from the k-th element of the add list on; ok is FALSE when an insert
\* panics.
RECURSIVE InsertFrom(_, _, _, _)
InsertFrom(v, add_index, addl, k) ==
    IF k >= Len(addl) THEN [ok |-> TRUE, v |-> v]
    ELSE IF ~CanInsert(v, InsertIndex(add_index, k)) THEN [ok |-> FALSE, v |-> v]
    ELSE InsertFrom(VecInsert(v, InsertIndex(add_index, k), addl[k + 1]),
                    add_index, addl, k + 1)

\* Mutant: remove uses an index shifted by the insertions, as if the `i` of
\* enumerate() were still in scope.
RemoveIndex_Shifted(idx, addl) == idx + Len(addl)

\* The index of self.0.remove(i): the loop's i of the visited layer (the `i`
\* of enumerate() is out of scope again).
RemoveIndex(idx, addl) == idx

\* Mutant: the Remove arm has no break and the loop goes on below.
Breaks_RemoveContinues(action) == action \notin {"Pass", "Remove"}

\* Mutant: the None arm continues the loop as Pass does.
Breaks_NoneContinues(action) == action \notin {"Pass", "None"}

\* match action: whether the arm ends in `break` (all but Pass => continue).
Breaks(action) == action # "Pass"

\* Mutant: the Remove arm removes nothing.
MatchAction_RemoveKeeps(v, idx, addl, action) ==
    CASE action = "None" -> [ok |-> TRUE, v |-> v]
      [] action = "Pass" -> [ok |-> TRUE, v |-> v]
      [] action = "Remove" -> [ok |-> TRUE, v |-> v]
      [] action = "Clear" -> [ok |-> TRUE, v |-> <<>>]

\* Mutant: Clear empties the stack before the add list goes in, so that the
\* add list is what is left.
MatchAction_ClearKeepsAdd(v, idx, addl, action) ==
    CASE action = "None" -> [ok |-> TRUE, v |-> v]
      [] action = "Pass" -> [ok |-> TRUE, v |-> v]
      [] action = "Remove" ->
            IF InBounds(v, idx)
            THEN [ok |-> TRUE, v |-> VecRemove(v, idx)]
            ELSE [ok |-> FALSE, v |-> v]
      [] action = "Clear" -> [ok |-> TRUE, v |-> addl]

\* match action { None => (), Pass => continue, Remove => { self.0.remove(i); }
\*                Clear => self.0.clear() }, on the Vec after the insertions.
MatchAction(v, idx, addl, action) ==
    CASE action = "None" -> [ok |-> TRUE, v |-> v]
      [] action = "Pass" -> [ok |-> TRUE, v |-> v]
      [] action = "Remove" ->
            IF InBounds(v, RemoveIndex(idx, addl))
            THEN [ok |-> TRUE, v |-> VecRemove(v, RemoveIndex(idx, addl))]
            ELSE [ok |-> FALSE, v |-> v]
      [] action = "Clear" -> [ok |-> TRUE, v |-> <<>>]

\* Mutant: Pass continues before the add list is inserted.
ApplyChange_PassSkipsAdd(v, idx, c) ==
    IF c.action = "Pass" THEN [ok |-> TRUE, v |-> v]
    ELSE LET ins == InsertFrom(v, AddIndex(idx), c.add, 0)
         IN  IF ~ins.ok THEN ins ELSE MatchAction(ins.v, idx, c.add, c.action)

\* One iteration of the while loop after layer.update returned c for the
\* layer at index idx: the insertions, then the action.
ApplyChange(v, idx, c) ==
    LET ins == InsertFrom(v, AddIndex(idx), c.add, 0)
    IN  IF ~ins.ok THEN ins ELSE MatchAction(ins.v, idx, c.add, c.action)

\* Mutant: a stack of one layer counts as inactive (len > 1).
is_active_MoreThanOne(v) == Len(v) > 1

\* Mutant: the negation is missing.
is_active_Negated(v) == Len(v) = 0

\* LayerManager::is_active
is_active(v) == ~(Len(v) = 0)

\* ------------------------------------------------------------------- Init
\* The lists LayerManager::new can be given: n layers of any implementations.
InitialLists ==
    UNION {{[k \in 1..n |-> NewLayer(k, kinds[k])] : kinds \in [1..n -> LayerKind]}
           : n \in 0..MaxInit}

\* LayerManager::new(layers)
Init ==
    /\ stack \in InitialLists
    /\ pc = "new"
    /\ event = "-"
    /\ count = 0
    /\ i = 0
    /\ p = 0
    /\ active = FALSE
    /\ nextId = Len(stack) + 1
    /\ pre = <<>>
    /\ before = <<>>
    /\ calls = <<>>
    /\ trace = <<>>

\* ---------------------------------------------------------------- actions
\* manager.is_active()
IsActive ==
    /\ pc \in {"new", "returned"}
    /\ active' = is_active(stack)
    /\ pc' = "checked"
    /\ UNCHANGED <<stack, event, count, i, p, nextId, pre, before, calls, trace>>

\* manager.update(state, e) is entered: count and i are set.
BeginWith(e) ==
    /\ e = "Input" => nextId <= MaxId
    /\ event' = e
    /\ count' = Len(stack)
    /\ i' = StartIndex(stack)
    /\ p' = 0
    /\ pc' = "dispatch"
    /\ active' = FALSE
    /\ pre' = stack
    /\ before' = <<>>
    /\ calls' = <<>>
    /\ UNCHANGED <<stack, nextId>>

\* manager.update(state, e), for any event, at any time between calls.
BeginUpdate ==
    /\ pc \in {"new", "checked", "returned"}
    /\ \E e \in Event : BeginWith(e)
    /\ UNCHANGED trace

\* One iteration of `while i > 0`: i -= 1, the layer at i handles the event,
\* its add list is inserted and its action carried out.
VisitWith(raw) ==
    /\ pc = "dispatch"
    /\ LoopCond(i)
    /\ LET idx == i - 1 IN
       IF ~InBounds(stack, idx)
       THEN /\ pc' = "panic"
            /\ i' = idx
            /\ UNCHANGED <<stack, event, count, p, active, nextId, pre, before, calls, trace>>
       ELSE \E c \in (IF raw THEN RawLayerUpdate(stack[idx + 1], event, nextId)
                             ELSE LayerUpdate(stack[idx + 1], event, nextId)) :
            LET res == ApplyChange(stack, idx, c) IN
            /\ i' = idx
            /\ before' = stack
            /\ calls' = Append(calls, Call("update", stack[idx + 1], idx, c))
            /\ nextId' = nextId + Len(c.add)
            /\ stack' = res.v
            /\ pc' = IF ~res.ok THEN "panic"
                     ELSE IF Breaks(c.action) THEN "passive"
                     ELSE "dispatch"
            /\ UNCHANGED <<event, count, p, active, pre, trace>>

\* The iteration, with layers that return what the constructors of Change
\* build.
Visit == VisitWith(FALSE)

\* The while loop ends because its condition is false.
LoopExit ==
    /\ pc = "dispatch"
    /\ ~LoopCond(i)
    /\ pc' = "passive"
    /\ UNCHANGED <<stack, event, count, i, p, active, nextId, pre, before, calls, trace>>

\* Mutant: the passive pass covers only as many layers as the stack had when
\* the call began (iter_mut().take(count)).
IterHasNext_TakeCount(v, pos) == pos < Len(v) /\ pos < count

\* Mutant: the iteration stops one layer short of the top.
IterHasNext_SkipTop(v, pos) == pos + 1 < Len(v)

\* Whether self.0.iter_mut() has another layer at position pos.
IterHasNext(v, pos) == pos < Len(v)

\* for layer in self.0.iter_mut() { layer.passive_update(state, &event); }
PassiveStep ==
    /\ pc = "passive"
    /\ IterHasNext(stack, p)
    /\ calls' = Append(calls, Call("passive", stack[p + 1], p, NoChange))
    /\ p' = p + 1
    /\ UNCHANGED <<stack, pc, event, count, i, active, nextId, pre, before, trace>>

\* The passive pass is over and update returns.
Return ==
    /\ pc = "passive"
    /\ ~IterHasNext(stack, p)
    /\ pc' = "returned"
    /\ UNCHANGED <<stack, event, count, i, p, active, nextId, pre, before, calls, trace>>

Next ==
    \/ IsActive
    \/ BeginUpdate
    \/ Visit
    \/ LoopExit
    \/ PassiveStep
    \/ Return

Spec == Init /\ [][Next]_vars

\* update is straight-line sequential code: once entered, its next step is
\* always taken. Nothing obliges the embedder to call update or is_active.
FairSpec ==
    /\ Spec
    /\ WF_vars(Visit)
    /\ WF_vars(LoopExit)
    /\ WF_vars(PassiveStep)
    /\ WF_vars(Return)

\* The iteration, with layers that may return any value of struct Change.
VisitRaw == VisitWith(TRUE)

NextRaw ==
    \/ IsActive
    \/ BeginUpdate
    \/ VisitRaw
    \/ LoopExit
    \/ PassiveStep
    \/ Return

\* The manager with layers that return any Change, Pass with an add list
\* included.
SpecRaw == Init /\ [][NextRaw]_vars

\* ------------------------------------------------------- tests::example
\* The update calls the test makes before its while loop (Idle, Input, Idle).
ScriptLen == 3

\* let mut manager = LayerManager::new(vec![Box::new(MainLayer), Box::new(TopLayer)]);
InitExample ==
    /\ stack = <<NewLayer(1, "Main"), NewLayer(2, "Top")>>
    /\ pc = "new"
    /\ event = "-"
    /\ count = 0
    /\ i = 0
    /\ p = 0
    /\ active = FALSE
    /\ nextId = 3
    /\ pre = <<>>
    /\ before = <<>>
    /\ calls = <<>>
    /\ trace = <<>>

\* What trace records of an update call.
TraceEntry(e) == [event |-> e, len |-> Len(stack)]

\* One of the first ScriptLen calls manager.update(&mut state, e); the test
\* dispatches Idle, Input, Idle, the model any three events.
ExampleUpdate ==
    /\ Len(trace) < ScriptLen
    /\ pc \in {"new", "returned"}
    /\ \E e \in Event :
        /\ BeginWith(e)
        /\ trace' = Append(trace, TraceEntry(e))

\* while manager.is_active()
ExampleCheck ==
    /\ Len(trace) >= ScriptLen
    /\ IsActive

\* { manager.update(&mut state, Event::Exit); }
ExampleExit ==
    /\ Len(trace) >= ScriptLen
    /\ pc = "checked"
    /\ active
    /\ BeginWith("Exit")
    /\ trace' = Append(trace, TraceEntry("Exit"))

NextExample ==
    \/ ExampleUpdate
    \/ ExampleCheck
    \/ ExampleExit
    \/ Visit
    \/ LoopExit
    \/ PassiveStep
    \/ Return

SpecExample == InitExample /\ [][NextExample]_vars

\* The test runs on one thread and every statement of it is executed.
FairExample == SpecExample /\ WF_vars(NextExample)

\* ------------------------------------------------- reading the history
\* The Layer::update invocations of the current call, in order.
Updates == SelectSeq(calls, LAMBDA c : c.op = "update")

\* The passive_update invocations of the current call, in order.
Passives == SelectSeq(calls, LAMBDA c : c.op = "passive")

\* The identities of a sequence of layers or of calls.
IdsOf(s) == [k \in 1..Len(s) |-> s[k].id]

Elems(s) == {s[k] : k \in 1..Len(s)}

\* The top-down pass of the current call is over.
PassOver == pc \in {"passive", "returned"} \/ (pc = "checked" /\ event # "-")

\* An update call has returned and no other has begun.
Done == pc = "returned" \/ (pc = "checked" /\ event # "-")

LastUpdate == Updates[Len(Updates)]

\* The top-down pass of the current call ended with a Change of this action.
Halted(action) ==
    /\ PassOver
    /\ Len(Updates) > 0
    /\ LastUpdate.change.action = action

\* Every layer of the stack the call began with returned Pass.
AllPassed ==
    /\ PassOver
    /\ Len(Updates) = Len(pre)
    /\ \A k \in 1..Len(Updates) : Updates[k].change.action = "Pass"

\* ----------------------------------------------------------------- claims
\* C1: every update call invokes passive_update on exactly the layers of the
\* final stack of that call, each once, in stack order from index 0 up; while
\* the pass runs, the layers called so far are the first p of the stack.
C1_PassiveOnFinalStack ==
    /\ pc = "passive" => IdsOf(Passives) = IdsOf(SubSeq(stack, 1, p))
    /\ Done => /\ IdsOf(Passives) = IdsOf(stack)
               /\ \A k \in 1..Len(Passives) : Passives[k].idx = k - 1

C1_Witness ==
    /\ Done
    /\ Len(stack) >= 3
    /\ stack # pre
    /\ Len(Passives) = Len(stack)

\* C2: when the layer at index i returns action None, Layer::update is
\* invoked on no layer below i for that event, and passive_update is still
\* invoked on every surviving layer, those below i included.
C2_NoneHalts ==
    /\ \A k \in 1..Len(calls) :
          (calls[k].op = "update" /\ calls[k].change.action = "None") =>
              \A m \in 1..Len(calls) :
                  calls[m].op = "update" => m <= k /\ calls[m].idx >= calls[k].idx
    /\ (Done /\ Halted("None")) =>
          /\ \A m \in 1..Len(stack) : \E q \in 1..Len(Passives) :
                Passives[q].id = stack[m].id
          /\ \A m \in 1..LastUpdate.idx :
                /\ stack[m] = pre[m]
                /\ \E q \in 1..Len(Passives) : Passives[q].id = pre[m].id
                /\ \A q \in 1..Len(Updates) : Updates[q].id # pre[m].id

C2_Witness ==
    /\ Done
    /\ Halted("None")
    /\ Len(Updates) >= 2
    /\ LastUpdate.idx >= 1

\* C3: on a non-empty stack the top layer receives Layer::update; the layer
\* at index j of the stack the call began with receives it iff every layer
\* above j returned Pass; the visits go one index down at a time, each layer
\* at most once; when the bottom layer returns Pass too, the stack is as the
\* call found it, as if the bottom layer had returned None.
C3_PassContinues ==
    LET n == Len(pre) IN
    /\ \A k \in 1..Len(Updates) :
          /\ k <= n
          /\ Updates[k].idx = n - k
          /\ Updates[k].id = pre[n - k + 1].id
    /\ PassOver =>
          /\ n > 0 => Len(Updates) >= 1 /\ Updates[1].id = pre[n].id
          /\ \A m \in 1..n :
                (\E k \in 1..Len(Updates) : Updates[k].id = pre[m].id)
                <=> (\A m2 \in (m + 1)..n : \E k \in 1..Len(Updates) :
                        /\ Updates[k].id = pre[m2].id
                        /\ Updates[k].change.action = "Pass")
    /\ AllPassed =>
          /\ stack = pre
          /\ n > 0 => stack = ApplyChange(before, 0, none).v

C3_Witness ==
    /\ Done
    /\ AllPassed
    /\ Len(pre) >= 3

\* C4: when the layer at index i returns action Remove, the stack after the
\* call no longer holds that layer, still holds every other layer it held
\* and every layer of the Change's add list, and no layer below i receives
\* Layer::update for that event.
C4_RemoveRemovesSelf ==
    Halted("Remove") =>
        /\ LastUpdate.id \notin Elems(IdsOf(stack))
        /\ \A m \in 1..Len(pre) :
              pre[m].id # LastUpdate.id => pre[m] \in Elems(stack)
        /\ \A k \in 1..Len(LastUpdate.change.add) :
              LastUpdate.change.add[k] \in Elems(stack)
        /\ Len(stack) = Len(pre) + Len(LastUpdate.change.add) - 1
        /\ \A q \in 1..Len(Updates) : Updates[q].idx >= LastUpdate.idx

C4_Witness ==
    /\ Done
    /\ Halted("Remove")
    /\ Len(LastUpdate.change.add) >= 1
    /\ LastUpdate.idx >= 1
    /\ Len(Updates) >= 2

\* C5: when the layer at index i of stack s returns Change::replace(list),
\* the stack after the call is s[0..i), then list in its order, then
\* s(i..end].
C5_ReplaceInPlace ==
    Halted("Remove") =>
        LET j == LastUpdate.idx IN
        stack = SubSeq(before, 1, j) \o LastUpdate.change.add
                    \o SubSeq(before, j + 2, Len(before))

C5_Witness ==
    /\ Done
    /\ Halted("Remove")
    /\ Len(LastUpdate.change.add) = 2
    /\ LastUpdate.idx >= 1
    /\ LastUpdate.idx + 1 < Len(before)

\* C6: when the layer at index i of stack s returns Change::add(list), the
\* stack after the call is s[0..i], then list in its order, then s(i..end];
\* the layers that were above end up above every inserted layer, and the
\* top-down pass halts there.
C6_AddAboveSelf ==
    Halted("None") =>
        LET j == LastUpdate.idx
            n == Len(LastUpdate.change.add)
        IN  /\ stack = SubSeq(before, 1, j + 1) \o LastUpdate.change.add
                           \o SubSeq(before, j + 2, Len(before))
            /\ \A m \in (j + 2)..Len(before) : stack[m + n] = before[m]
            /\ calls[Len(Updates)] = LastUpdate
            /\ \A k \in (Len(Updates) + 1)..Len(calls) : calls[k].op = "passive"

C6_Witness ==
    /\ Done
    /\ Halted("None")
    /\ Len(LastUpdate.change.add) = 2
    /\ LastUpdate.idx >= 1
    /\ LastUpdate.idx + 1 < Len(before)

C8_ClearReplacesStack ==
    (Done /\ Halted("Clear")) => stack = LastUpdate.change.add

\* C9: on a manager whose stack is empty, is_active() is false, and update
\* leaves the stack empty, invokes no layer method and does not fail.
C9_EmptyManager ==
    /\ (pc = "checked" /\ stack = <<>>) => active = FALSE
    /\ (event # "-" /\ pre = <<>>) =>
          /\ stack = <<>>
          /\ calls = <<>>
          /\ pc # "panic"

C9_Witness ==
    /\ pc = "checked"
    /\ event # "-"
    /\ pre = <<>>
    /\ active = FALSE

\* C10: in every reachable state, is_active() returns true iff the stack
\* holds at least one layer.
C10_ActiveIffNonEmpty ==
    pc = "checked" => (active <=> Len(stack) >= 1)

C10_Witness ==
    /\ pc = "checked"
    /\ active
    /\ event # "-"
    /\ Len(stack) >= 1
    /\ stack # pre

\* C11: the empty stack is terminal: once is_active() has returned false (and
\* whenever the stack is empty) the stack is empty, and is_active() false,
\* after every further step of every further update call.
C11_EmptyIsTerminal ==
    [][((pc = "checked" /\ ~active) \/ stack = <<>>)
          => (stack' = <<>> /\ ~is_active(stack') /\ (pc' = "checked" => ~active'))]_vars

C11_Witness ==
    /\ pc = "checked"
    /\ ~active
    /\ event # "-"
    /\ pre = <<>>
    /\ nextId > 1

\* C12: every index update uses is valid when used: the visited index is
\* below the length, each insertion index is at most the length at that
\* moment, remove(i) meets an element; update never panics.
C12_IndexSafety ==
    /\ pc # "panic"
    /\ pc = "dispatch" => (i >= 0 /\ i <= Len(stack))
    /\ Len(Updates) > 0 =>
          LET j == LastUpdate.idx
              c == LastUpdate.change
          IN  /\ InBounds(before, j)
              /\ \A k \in 0..(Len(c.add) - 1) :
                    InsertIndex(AddIndex(j), k) <= Len(before) + k
              /\ c.action = "Remove" => j < Len(before) + Len(c.add)
              /\ ApplyChange(before, j, c).ok

C12_Witness ==
    /\ Done
    /\ Halted("Remove")
    /\ Len(LastUpdate.change.add) = 2
    /\ LastUpdate.idx = Len(before) - 1
    /\ Len(before) >= 2

\* C13 as claimed: inserting an add list never changes the stack index of a
\* layer visited earlier in the same call.
C13_VisitedKeepIndex ==
    Halted("None") =>
        \A k \in 1..(Len(Updates) - 1) :
            stack[Updates[k].idx + 1].id = Updates[k].id

\* C13 amended: insertions occur only above the visited index i (at i + 1
\* and up); they leave the index of the visited layer and of every layer below
\* it (those not yet visited) unchanged, and shift the layers above it, which
\* are the ones visited earlier in the call, up by the length of the add list.
C13_InsertAboveVisited ==
    Len(Updates) > 0 =>
        LET j == LastUpdate.idx
            addl == LastUpdate.change.add
            ins == InsertFrom(before, AddIndex(j), addl, 0).v
        IN  /\ \A m \in 1..(j + 1) : ins[m] = before[m]
            /\ \A k \in 1..Len(addl) : ins[j + 1 + k] = addl[k]
            /\ \A m \in (j + 2)..Len(before) : ins[m + Len(addl)] = before[m]
            /\ LastUpdate.change.action \in {"None", "Pass"} =>
                  /\ stack = ins
                  /\ stack[j + 1].id = LastUpdate.id
                  /\ \A m \in 1..j : stack[m] = pre[m]

C13_Witness ==
    /\ Done
    /\ Halted("None")
    /\ Len(Updates) >= 2
    /\ Len(LastUpdate.change.add) >= 1
    /\ LastUpdate.idx >= 1

\* The events of the update calls the test has made.
TraceEvents == [k \in 1..Len(trace) |-> trace[k].event]

\* The documented scenario: Idle, Input, Idle, then Exit.
ScenarioEvent(k) ==
    CASE k = 1 -> "Idle"
      [] k = 2 -> "Input"
      [] k = 3 -> "Idle"
      [] OTHER -> "Exit"

InScenario == \A k \in 1..Len(trace) : trace[k].event = ScenarioEvent(k)

\* C14: from [Main, Top], dispatching Idle, Input, Idle gives [Main, NewTop,
\* Top] (Idle is handled by Top alone, Input by Top then Main, the passive
\* pass covers all layers bottom-up each time); each Exit then removes the top
\* layer, and after exactly three Exit calls the stack is empty and
\* is_active() false.
C14_Scenario ==
    LET n == Len(trace)
        Main == NewLayer(1, "Main")
        Top == NewLayer(2, "Top")
        NewTop == NewLayer(3, "Top")
        grown == <<Main, NewTop, Top>>
    IN  InScenario =>
        /\ n <= ScriptLen + 3
        /\ n = 1 => /\ PassOver => IdsOf(Updates) = <<2>> /\ stack = <<Main, Top>>
                    /\ Done => IdsOf(Passives) = <<1, 2>>
        /\ n = 2 => /\ PassOver => IdsOf(Updates) = <<2, 1>> /\ stack = grown
                    /\ Done => IdsOf(Passives) = <<1, 3, 2>>
        /\ n = 3 => /\ PassOver => IdsOf(Updates) = <<2>> /\ stack = grown
                    /\ Done => IdsOf(Passives) = <<1, 3, 2>>
        /\ n > 3 => /\ pre = SubSeq(grown, 1, 7 - n)
                    /\ PassOver => /\ IdsOf(Updates) = <<pre[Len(pre)].id>>
                                   /\ stack = SubSeq(grown, 1, 6 - n)
                    /\ Done => IdsOf(Passives) = IdsOf(stack)
        /\ pc = "checked" => (active <=> n < ScriptLen + 3)

C14_Witness ==
    /\ TraceEvents = <<"Idle", "Input", "Idle", "Exit", "Exit", "Exit">>
    /\ pc = "checked"
    /\ ~active
    /\ stack = <<>>

\* The number of update calls the while loop of the test has made.
LoopCalls == Len(trace) - ScriptLen

\* C15 (safety part): where every layer returns Change::remove() for Exit,
\* each update call of the loop `while is_active() { update(Exit) }` removes
\* exactly the top layer, the length drops by one per call, and is_active()
\* is false after exactly n calls, n the length when the loop began.
C15_LoopInvariant ==
    /\ (LoopCalls = 0 /\ pc = "checked") => (active <=> Len(stack) > 0)
    /\ LoopCalls >= 1 =>
          LET n == trace[ScriptLen + 1].len IN
          /\ LoopCalls <= n
          /\ \A q \in 1..LoopCalls :
                /\ trace[ScriptLen + q].event = "Exit"
                /\ trace[ScriptLen + q].len = n - q + 1
          /\ PassOver =>
                /\ Len(Updates) = 1
                /\ Updates[1].idx = Len(pre) - 1
                /\ Updates[1].change = remove
                /\ stack = SubSeq(pre, 1, Len(pre) - 1)
                /\ Len(stack) = n - LoopCalls
          /\ pc = "checked" => (active <=> LoopCalls < n)

LoopEnded == Len(trace) >= ScriptLen /\ pc = "checked" /\ ~active

\* C15: the loop invariant above always holds, and the loop terminates:
\* is_active() eventually returns false.
C15_LoopTerminates == []C15_LoopInvariant /\ <>LoopEnded

C15_Witness ==
    /\ LoopEnded
    /\ LoopCalls >= 4
    /\ LoopCalls = trace[ScriptLen + 1].len

\* C16: the add list is inserted whatever the action, Pass included: when the
\* layer at index i returns Pass with an add list, the list is directly above
\* i afterwards, the next layer to receive Layer::update is the one that was
\* directly below i, at its unchanged index, and no inserted layer receives
\* Layer::update in that call.
C16_PassInsertsToo ==
    /\ \A k \in 1..Len(Updates) :
          /\ k <= Len(pre)
          /\ Updates[k].idx = Len(pre) - k
          /\ Updates[k].id = pre[Len(pre) - k + 1].id
          /\ k > 1 => Updates[k - 1].change.action = "Pass"
          /\ \A q \in 1..Len(Updates) : \A a \in 1..Len(Updates[q].change.add) :
                Updates[k].id # Updates[q].change.add[a].id
    /\ (Len(Updates) > 0 /\ pc \in {"dispatch", "passive", "returned", "checked"}) =>
          LET j == LastUpdate.idx
              addl == LastUpdate.change.add
              inserted == SubSeq(before, 1, j + 1) \o addl
                              \o SubSeq(before, j + 2, Len(before))
          IN  CASE LastUpdate.change.action = "Pass" ->
                      /\ stack = inserted
                      /\ i = j
                      /\ \A m \in 1..j : stack[m] = pre[m]
                [] LastUpdate.change.action = "None" -> stack = inserted
                [] LastUpdate.change.action = "Remove" ->
                      stack = SubSeq(inserted, 1, j)
                                  \o SubSeq(inserted, j + 2, Len(inserted))
                [] LastUpdate.change.action = "Clear" -> stack = <<>>

C16_Witness ==
    /\ Done
    /\ Len(Updates) >= 2
    /\ Updates[1].change.action = "Pass"
    /\ Len(Updates[1].change.add) = 2
    /\ Updates[2].change.action = "Pass"
    /\ Len(Updates[2].change.add) >= 1

\* C17 (safety part): Layer::update is invoked at most as many times as the
\* stack had layers when the call began, and every Layer::update invocation
\* of a call precedes every passive_update invocation of it.
C17_UpdatesThenPassives ==
    /\ Len(Updates) <= Len(pre)
    /\ pc = "dispatch" => Passives = <<>>
    /\ \A k \in 1..Len(calls) : \A m \in 1..Len(calls) :
          (calls[k].op = "update" /\ calls[m].op = "passive") => k < m
    /\ calls = Updates \o Passives

\* C17: the above always holds, and every update call that is entered
\* returns.
C17_TwoPhases ==
    /\ []C17_UpdatesThenPassives
    /\ (pc = "dispatch") ~> (pc = "returned")

C17_Witness ==
    /\ Done
    /\ Len(pre) >= 2
    /\ Len(Updates) = Len(pre)
    /\ Halted("None")
    /\ Len(Passives) > Len(pre)

\* C18: a layer inserted by a Change with action None or Remove receives no
\* Layer::update in that call (its first can only come in a later one), and
\* does receive passive_update, once, for the event that inserted it.
C18_InsertedGetPassiveOnly ==
    (Halted("None") \/ Halted("Remove")) =>
        \A a \in 1..Len(LastUpdate.change.add) :
            LET id == LastUpdate.change.add[a].id IN
            /\ id \notin Elems(IdsOf(pre))
            /\ id \notin Elems(IdsOf(Updates))
            /\ Done => Cardinality({q \in 1..Len(Passives) : Passives[q].id = id}) = 1

C18_Witness ==
    /\ Done
    /\ Halted("None")
    /\ Len(LastUpdate.change.add) = 2
    /\ LastUpdate.idx = 0
    /\ Len(pre) >= 2
    /\ \E q \in 1..Len(Passives) : Passives[q].id = LastUpdate.change.add[2].id

\* The layers that were created and are no longer in the stack.
Gone == (1..(nextId - 1)) \ Elems(IdsOf(stack))

C19_State ==
    /\ Cardinality(Elems(IdsOf(stack))) = Len(stack)
    /\ \A k \in 1..Len(Updates) : Updates[k].id \in Elems(IdsOf(pre))
    /\ \A k \in 1..Len(Passives) : Passives[k].id \in Elems(IdsOf(stack))
    /\ Halted("Remove") =>
          /\ LastUpdate.id \in Gone
          /\ LastUpdate.id \notin Elems(IdsOf(Passives))
    /\ Halted("Clear") =>
          /\ Passives = <<>>
          /\ \A m \in 1..Len(pre) : pre[m].id \in Gone

C19_Step ==
    /\ Gone \subseteq Gone'
    /\ (calls' # calls /\ calls' # <<>>) =>
          /\ calls'[Len(calls')].id \notin Gone
          /\ calls'[Len(calls')].op = "passive" => calls'[Len(calls')].id \notin Gone'

\* C19: once a layer has left the stack no method is invoked on it again:
\* no passive_update in the call that removed it, nothing in later calls (a
\* layer that is gone stays gone, and every method is invoked on a layer of
\* the stack); and no layer is at two positions of the stack.
C19_GoneLayersAreNeverCalled == []C19_State /\ [][C19_Step]_vars

C19_Witness ==
    /\ Done
    /\ 1 \in Gone
    /\ 1 \notin Elems(IdsOf(pre))
    /\ Len(Updates) >= 1
    /\ Len(Passives) >= 1

\* The layer the halting Change took out of the stack, if any.
Removed ==
    IF Halted("Remove") THEN {LastUpdate.id}
    ELSE IF Halted("Clear") THEN Elems(IdsOf(pre))
    ELSE {}

\* What holds of the stack after the top-down pass, whatever the action.
C20_Lengths ==
    /\ Halted("None") => Len(stack) = Len(pre) + Len(LastUpdate.change.add)
    /\ Halted("Remove") => Len(stack) = Len(pre) + Len(LastUpdate.change.add) - 1
    /\ AllPassed => Len(stack) = Len(pre) /\ stack = pre
    /\ Halted("Clear") => Len(stack) = 0

\* The stack changes in one step only: the visit of the layer whose Change
\* halts the top-down pass; the passive pass leaves it as it is.
C20_Step ==
    /\ stack' # stack =>
          /\ pc = "dispatch"
          /\ pc' = "passive"
          /\ Len(calls') = Len(calls) + 1
    /\ pc = "passive" => stack' = stack

C20_FrameState ==
    PassOver =>
        /\ C20_Lengths
        /\ SelectSeq(stack, LAMBDA l : l \in Elems(pre))
              = SelectSeq(pre, LAMBDA l : l.id \notin Removed)
        /\ \A m \in 1..Len(pre) :
              ((\A k \in 1..Len(Updates) :
                    Updates[k].id = pre[m].id => Updates[k].change.action = "Pass")
               /\ ~Halted("Clear"))
                  => pre[m] \in Elems(stack)

====
